---- MODULE Spec2Model ----
(***************************************************************************)
(* A model of build.py: the configuration layers (.build, --import), the   *)
(* argparse command line, export, validation, synthesis of the CMake       *)
(* definitions and of the build directory, and the configure/build driver. *)
(***************************************************************************)
EXTENDS Integers, Sequences, FiniteSets, TLC

(***************************************************************************)
(* Python values.  Every value carries its type, so that None, 0, "" and   *)
(* [] stay different values with the same truthiness.                      *)
(***************************************************************************)
None == [t |-> "none", v |-> 0]
StrV(s) == [t |-> "str", v |-> s]
IntV(n) == [t |-> "int", v |-> n]
BoolV(b) == [t |-> "bool", v |-> b]
ListV(l) == [t |-> "list", v |-> l]
DictV(m) == [t |-> "dict", v |-> m]

\* bool(value) of Python
Truthy(x) ==
    CASE x.t = "none" -> FALSE
      [] x.t = "str"  -> x.v # ""
      [] x.t = "int"  -> x.v # 0
      [] x.t = "bool" -> x.v
      [] x.t = "list" -> x.v # <<>>
      [] x.t = "dict" -> DOMAIN x.v # {}

EmptyMap == <<>>

\* dict.update: the entries of new replace those of old
Update(old, new) == new @@ old

(***************************************************************************)
(* The option schema of _build_parser: destination, option strings,        *)
(* action and default of the options the model follows.                    *)
(***************************************************************************)
Actions ==
    [ configure             |-> [opts |-> {"-c"}, action |-> "count", default |-> None, const |-> None],
      build_type            |-> [opts |-> {"-b", "--build-type"}, action |-> "store", default |-> StrV("Release"), const |-> None],
      parallel              |-> [opts |-> {"-j", "--parallel"}, action |-> "optional", default |-> None, const |-> IntV(-1)],
      enable_sanitizer      |-> [opts |-> {"--enable-sanitizer"}, action |-> "store", default |-> None, const |-> None],
      enable_openvino_debug |-> [opts |-> {"--enable-openvino-debug"}, action |-> "store", default |-> None, const |-> None],
      enable_profiling_itt  |-> [opts |-> {"--enable-profiling-itt"}, action |-> "store", default |-> None, const |-> None],
      enable_cc             |-> [opts |-> {"--enable-cc"}, action |-> "store", default |-> None, const |-> None],
      cc_stat_file          |-> [opts |-> {"--cc-stat-file"}, action |-> "store", default |-> None, const |-> None],
      threading             |-> [opts |-> {"--threading"}, action |-> "store", default |-> StrV("TBB"), const |-> None],
      output_root           |-> [opts |-> {"--output-root"}, action |-> "store", default |-> None, const |-> None],
      plugins               |-> [opts |-> {"--plugins"}, action |-> "list", default |-> None, const |-> None],
      frontends             |-> [opts |-> {"--frontends"}, action |-> "list", default |-> None, const |-> None],
      use_mold              |-> [opts |-> {"--use-mold"}, action |-> "store_true", default |-> BoolV(FALSE), const |-> None],
      use_ccache            |-> [opts |-> {"--use-ccache"}, action |-> "store_true", default |-> BoolV(TRUE), const |-> None],
      arch                  |-> [opts |-> {"-a", "--arch"}, action |-> "store", default |-> None, const |-> None],
      gprof                 |-> [opts |-> {"-u", "--gprof"}, action |-> "store_true", default |-> BoolV(FALSE), const |-> None],
      linux_perf            |-> [opts |-> {"--linux-perf"}, action |-> "store_true", default |-> BoolV(FALSE), const |-> None],
      native_compilation    |-> [opts |-> {"--native-compilation"}, action |-> "store_true", default |-> BoolV(FALSE), const |-> None],
      verbose               |-> [opts |-> {"-v"}, action |-> "count", default |-> IntV(1), const |-> None],
      quiet                 |-> [opts |-> {"-q", "--quiet"}, action |-> "store_true", default |-> BoolV(FALSE), const |-> None],
      completion            |-> [opts |-> {"--completion"}, action |-> "store", default |-> None, const |-> None],
      export_file           |-> [opts |-> {"--export"}, action |-> "store", default |-> None, const |-> None],
      import_file           |-> [opts |-> {"--import"}, action |-> "optional", default |-> None, const |-> StrV(".build")],
      ignore_config         |-> [opts |-> {"--ignore-config"}, action |-> "store_true", default |-> BoolV(FALSE), const |-> None],
      target                |-> [opts |-> {}, action |-> "remainder", default |-> ListV(<<>>), const |-> None] ]

Dests == DOMAIN Actions

\* {action.dest for action in parser._actions}: the options and -h/--help
ValidDests == Dests \cup {"help"}

\* the namespace argparse starts from: every option at its schema default
SchemaDefaults == [d \in Dests |-> Actions[d].default]

\* the destination of an option string
DestOf(opt) == CHOOSE d \in Dests : opt \in Actions[d].opts

(***************************************************************************)
(* The command line: a sequence of tokens.  An option token is an option   *)
(* string, alone ("-c", "--build-type"), with a short flag repeated in one *)
(* token ("-cc": rep = 2) or with its value joined ("--build-type=Debug",  *)
(* "-j4").  A word is any other token: a value or a build target.          *)
(***************************************************************************)
Opt(o) == [k |-> "opt", opt |-> o, rep |-> 1, val |-> None]
OptRep(o, n) == [k |-> "opt", opt |-> o, rep |-> n, val |-> None]
OptJoined(o, s) == [k |-> "opt", opt |-> o, rep |-> 1, val |-> StrV(s)]
Word(s) == [k |-> "word", opt |-> "", rep |-> 0, val |-> StrV(s)]

\* the token is, character for character, the option string o
IsLiteral(tok, o) ==
    \/ tok.k = "opt" /\ tok.opt = o /\ tok.rep = 1 /\ tok.val = None
    \/ tok.k = "word" /\ tok.val.v = o

\* the text of a token that ends up in the target list
TokText(tok) == IF tok.k = "word" THEN tok.val.v ELSE tok.opt

\* int(string) for the parallelism values of the model
IntOfString(s) == CASE s = "4" -> 4 [] s = "1" -> 1 [] OTHER -> 0

\* argparse's _get_value: type=int is applied to --parallel only
Convert(d, x) == IF d = "parallel" /\ x.t = "str" THEN IntV(IntOfString(x.v)) ELSE x

(***************************************************************************)
(* argparse.  parse_known_args of the two-option import parser, and        *)
(* parse_args of the full parser over the remaining tokens.                *)
(***************************************************************************)
RECURSIVE KnownArgs(_, _, _)
KnownArgs(toks, i, acc) ==
    IF i > Len(toks) THEN acc
    ELSE LET tok == toks[i] IN
        IF tok.k = "opt" /\ tok.opt = "--import"
        THEN IF tok.val # None
             THEN KnownArgs(toks, i + 1, [acc EXCEPT !.import_file = tok.val])
             ELSE IF i < Len(toks) /\ toks[i + 1].k = "word"
                  THEN KnownArgs(toks, i + 2, [acc EXCEPT !.import_file = toks[i + 1].val])
                  ELSE KnownArgs(toks, i + 1, [acc EXCEPT !.import_file = Actions["import_file"].const])
        ELSE IF tok.k = "opt" /\ tok.opt = "--ignore-config"
             THEN KnownArgs(toks, i + 1, [acc EXCEPT !.ignore_config = BoolV(TRUE)])
             ELSE KnownArgs(toks, i + 1, [acc EXCEPT !.remaining = Append(@, tok)])

ParseKnownArgs(toks) ==
    KnownArgs(toks, 1, [import_file |-> None, ignore_config |-> BoolV(FALSE), remaining |-> <<>>])

\* the words that follow token i, up to the next option token
RECURSIVE WordsAfter(_, _)
WordsAfter(toks, i) ==
    IF i < Len(toks) /\ toks[i + 1].k = "word"
    THEN <<toks[i + 1].val.v>> \o WordsAfter(toks, i + 1)
    ELSE <<>>

RECURSIVE ParseFrom(_, _, _)
ParseFrom(toks, i, ns) ==
    IF i > Len(toks) THEN ns
    ELSE LET tok == toks[i] IN
        IF tok.k = "word"
        THEN \* nargs=REMAINDER: the first positional and all that follows it
             [ns EXCEPT !["target"] = ListV([j \in 1..(Len(toks) - i + 1) |-> TokText(toks[i + j - 1])])]
        ELSE LET d == DestOf(tok.opt)
                 a == Actions[d].action
                 joined == tok.val # None
                 hasNext == i < Len(toks) /\ toks[i + 1].k = "word"
             IN  CASE a = "count" ->
                        ParseFrom(toks, i + 1,
                            [ns EXCEPT ![d] = IntV((IF ns[d] = None THEN 0 ELSE ns[d].v) + tok.rep)])
                   [] a = "store_true" ->
                        ParseFrom(toks, i + 1, [ns EXCEPT ![d] = BoolV(TRUE)])
                   [] a = "store" ->
                        IF joined
                        THEN ParseFrom(toks, i + 1, [ns EXCEPT ![d] = Convert(d, tok.val)])
                        ELSE ParseFrom(toks, i + 2, [ns EXCEPT ![d] = Convert(d, toks[i + 1].val)])
                   [] a = "optional" ->
                        IF joined
                        THEN ParseFrom(toks, i + 1, [ns EXCEPT ![d] = Convert(d, tok.val)])
                        ELSE IF hasNext
                             THEN ParseFrom(toks, i + 2, [ns EXCEPT ![d] = Convert(d, toks[i + 1].val)])
                             ELSE ParseFrom(toks, i + 1, [ns EXCEPT ![d] = Actions[d].const])
                   [] a = "list" ->
                        LET ws == WordsAfter(toks, i)
                        IN  ParseFrom(toks, i + 1 + Len(ws), [ns EXCEPT ![d] = ListV(ws)])

\* parser.set_defaults(**defaults); parser.parse_args(toks).  The REMAINDER
\* positional is reset to [] whatever default was set for it.
ParseArgs(defaults, toks) ==
    ParseFrom(toks, 1, [Update(SchemaDefaults, defaults) EXCEPT !["target"] = ListV(<<>>)])

(***************************************************************************)
(* Files.  A path holds no file, a file that cannot be read, text that is  *)
(* not YAML, or a YAML document: a Python value once loaded.               *)
(***************************************************************************)
NoFile == [kind |-> "missing", obj |-> None]
Unreadable == [kind |-> "unreadable", obj |-> None]
BadYaml == [kind |-> "syntax", obj |-> None]
\* yaml.safe_dump: the document of a Python value
YamlDump(x) == [kind |-> "doc", obj |-> x]
\* yaml.safe_load of a document
YamlLoad(content) == content.obj

\* Path(p).exists()
Exists(content) == content.kind # "missing"

\* what the interpreter writes to stderr for an exception nobody catches: the
\* header, the frames, the exception
Traceback(exc) == <<"Traceback (most recent call last):", "  File build.py, in run", exc>>

\* _load_config_file with an unknown key of a mandatory file taken as an error
LoadConfigFileStrict(content, is_error_fatal) ==
    IF content.kind # "doc"
    THEN IF is_error_fatal
         THEN [status |-> "exit", cfg |-> EmptyMap, err |-> <<"Error: Unable to load import file">>]
         ELSE [status |-> "ok", cfg |-> EmptyMap, err |-> <<"Warning: Unable to load file">>]
    ELSE LET obj == YamlLoad(content)
             loaded == IF Truthy(obj) THEN obj ELSE DictV(EmptyMap)
         IN  IF loaded.t # "dict"
             THEN [status |-> "crash", cfg |-> EmptyMap, err |-> Traceback("AttributeError")]
             ELSE LET valid == DOMAIN loaded.v \cap ValidDests
                      unknown == DOMAIN loaded.v \ ValidDests
                  IN  IF is_error_fatal /\ unknown # {}
                      THEN [status |-> "exit", cfg |-> EmptyMap, err |-> <<"Error: Unknown option">>]
                      ELSE [status |-> "ok",
                            cfg |-> [k \in valid |-> loaded.v[k]],
                            err |-> [i \in 1..Cardinality(unknown) |-> "Warning: Unknown option; ignoring"]]

\* _load_config_file: status "ok" with the valid options, "exit" (sys.exit(1)) or
\* "crash" (an exception nobody catches); err is what it prints to stderr
LoadConfigFile(content, is_error_fatal) ==
    IF content.kind # "doc"
    THEN IF is_error_fatal
         THEN [status |-> "exit", cfg |-> EmptyMap, err |-> <<"Error: Unable to load import file">>]
         ELSE [status |-> "ok", cfg |-> EmptyMap, err |-> <<"Warning: Unable to load file">>]
    ELSE LET obj == YamlLoad(content)
             loaded == IF Truthy(obj) THEN obj ELSE DictV(EmptyMap)
         IN  IF loaded.t # "dict"
             THEN [status |-> "crash", cfg |-> EmptyMap, err |-> Traceback("AttributeError")]
             ELSE LET valid == DOMAIN loaded.v \cap ValidDests
                      unknown == DOMAIN loaded.v \ ValidDests
                  IN  [status |-> "ok",
                       cfg |-> [k \in valid |-> loaded.v[k]],
                       err |-> [i \in 1..Cardinality(unknown) |-> "Warning: Unknown option; ignoring"]]

FileAt(fs, path) == IF path \in DOMAIN fs THEN fs[path] ELSE NoFile

LoadedNothing == [status |-> "ok", cfg |-> EmptyMap, err |-> <<>>]

\* import_if_provided: the layers, then the command line over them.  status is
\* "ok", "exit" or "crash" as in LoadConfigFile.
ImportIfProvided(argv, fs) ==
    LET known == ParseKnownArgs(argv)
        build == IF ~Truthy(known.ignore_config) /\ Exists(FileAt(fs, ".build"))
                 THEN LoadConfigFile(FileAt(fs, ".build"), FALSE)
                 ELSE LoadedNothing
        imp == IF build.status = "ok" /\ Truthy(known.import_file)
               THEN LoadConfigFile(FileAt(fs, known.import_file.v), TRUE)
               ELSE LoadedNothing
        defaults == Update(build.cfg, imp.cfg)
        parsed == ParseArgs(defaults, known.remaining)
        restored == IF "target" \in DOMAIN defaults /\ ~Truthy(parsed["target"])
                    THEN [parsed EXCEPT !["target"] = defaults["target"]]
                    ELSE parsed
        args == [restored EXCEPT !["import_file"] = known.import_file,
                                 !["ignore_config"] = known.ignore_config]
        status == IF build.status # "ok" THEN build.status ELSE imp.status
    IN  [status |-> status,
         args |-> IF status = "ok" THEN args ELSE EmptyMap,
         defaults |-> IF status = "ok" THEN defaults ELSE EmptyMap,
         err |-> build.err \o imp.err]

\* export_args: the options taken as explicitly provided ...
Provided(argv, defaults) ==
    DOMAIN defaults \cup
    {d \in Dests : \E o \in Actions[d].opts : \E i \in 1..Len(argv) : IsLiteral(argv[i], o)}

\* ... and the dictionary that is dumped
ToExport(argv, args, defaults) ==
    LET names == (DOMAIN args \cap Provided(argv, defaults)) \ {"export_file", "import_file"}
    IN  [n \in names |-> args[n]]

(***************************************************************************)
(* Synthesis: the build directory and the CMake definitions.               *)
(***************************************************************************)
\* str(value) of the values that reach a command line
StrOf(value) ==
    CASE value.t = "str" -> value.v
      [] value.t = "int" -> (CASE value.v = 1 -> "1" [] value.v = 4 -> "4" [] OTHER -> "0")
      [] value.t = "bool" -> (IF value.v THEN "True" ELSE "False")
      [] value.t = "none" -> "None"

\* _compute_build_dir with a suffix for the conditional-compilation mode as well
ComputeBuildDirWithCc(args) ==
    LET s1 == IF args["arch"] # None THEN "_" \o args["arch"].v ELSE ""
        s2 == IF args["threading"] = StrV("OMP") THEN s1 \o "_omp" ELSE s1
        s3 == IF Truthy(args["native_compilation"]) THEN s2 \o "_native_comp" ELSE s2
        s4 == IF Truthy(args["enable_sanitizer"]) THEN s3 \o "_" \o args["enable_sanitizer"].v ELSE s3
        s5 == IF Truthy(args["enable_openvino_debug"]) THEN s4 \o "_ov_debug" ELSE s4
        s6 == IF Truthy(args["enable_cc"]) THEN s5 \o "_cc" ELSE s5
    IN  "build_" \o args["build_type"].v \o s6

\* _compute_build_dir
ComputeBuildDir(args) ==
    LET s1 == IF args["arch"] # None THEN "_" \o args["arch"].v ELSE ""
        s2 == IF args["threading"] = StrV("OMP") THEN s1 \o "_omp" ELSE s1
        s3 == IF Truthy(args["native_compilation"]) THEN s2 \o "_native_comp" ELSE s2
        s4 == IF Truthy(args["enable_sanitizer"]) THEN s3 \o "_" \o args["enable_sanitizer"].v ELSE s3
        s5 == IF Truthy(args["enable_openvino_debug"]) THEN s4 \o "_ov_debug" ELSE s4
    IN  "build_" \o args["build_type"].v \o s5

FRONTENDS == {"onnx", "paddle", "tf", "tf_lite", "pytorch", "ir", "jax"}
PLUGINS == {"intel_cpu", "intel_gpu", "intel_npu", "hetero", "multi", "auto", "template",
            "auto_batch", "proxy"}

\* str.upper() of the names the model uses
Upper ==
    [ onnx |-> "ONNX", paddle |-> "PADDLE", tf |-> "TF", tf_lite |-> "TF_LITE",
      pytorch |-> "PYTORCH", ir |-> "IR", jax |-> "JAX",
      intel_cpu |-> "INTEL_CPU", intel_gpu |-> "INTEL_GPU", intel_npu |-> "INTEL_NPU",
      hetero |-> "HETERO", multi |-> "MULTI", auto |-> "AUTO", template |-> "TEMPLATE",
      auto_batch |-> "AUTO_BATCH", proxy |-> "PROXY",
      sanitizer |-> "SANITIZER", openvino_debug |-> "OPENVINO_DEBUG",
      profiling_itt |-> "PROFILING_ITT", cc |-> "CC", on |-> "ON", off |-> "OFF" ]

\* name[len("enable_"):] of the attributes whose name starts with "enable_"
EnableSuffix ==
    [ enable_sanitizer |-> "sanitizer", enable_openvino_debug |-> "openvino_debug",
      enable_profiling_itt |-> "profiling_itt", enable_cc |-> "cc" ]

san_map ==
    [ asan |-> "ENABLE_SANITIZER", tsan |-> "ENABLE_THREAD_SANITIZER",
      usan |-> "ENABLE_UB_SANITIZER", msan |-> "ENABLE_MEMORY_SANITIZER" ]

toolchains ==
    [ x86 |-> "cmake/toolchains/x86_64.linux.toolchain.cmake",
      arm |-> "cmake/arm64.toolchain.cmake",
      arm32 |-> "cmake/arm.toolchain.cmake",
      riscv |-> "cmake/toolchains/riscv64-100-xuantie-gnu.toolchain.cmake" ]

\* the elements of a Python list or None
Elems(x) == IF x.t = "list" THEN {x.v[i] : i \in 1..Len(x.v)} ELSE {}

\* the generic --enable_* loop: the names whose value is neither on, off nor None
InvalidEnables(args) ==
    {n \in DOMAIN args \cap DOMAIN EnableSuffix :
        args[n] \notin {StrV("on"), StrV("off")} /\ args[n] # None}

GenericDefs(args) ==
    LET names == {n \in DOMAIN args \cap DOMAIN EnableSuffix : args[n] \in {StrV("on"), StrV("off")}}
        KeyOf(n) == "ENABLE_" \o Upper[EnableSuffix[n]]
    IN  [k \in {KeyOf(n) : n \in names} |->
            Upper[args[CHOOSE n \in names : KeyOf(n) = k].v]]

SanitizerDefs(args) ==
    IF Truthy(args["enable_sanitizer"])
    THEN (san_map[args["enable_sanitizer"].v] :> "ON") @@ ("BUILD_SHARED_LIBS" :> "OFF")
    ELSE EmptyMap

\* the frontends with only the selected ones enumerated
FrontendDefsSelectedOnly(args) ==
    LET fe_list == IF Truthy(args["frontends"]) THEN Elems(args["frontends"]) ELSE {}
    IN  [k \in {"ENABLE_OV_" \o Upper[fe] \o "_FRONTEND" : fe \in fe_list \cap FRONTENDS} |-> "ON"]

\* getattr(args, name, False)
GetAttr(args, name) == IF name \in DOMAIN args THEN Truthy(args[name]) ELSE FALSE

FrontendDefs(args) ==
    LET fe_list == (IF Truthy(args["frontends"]) THEN Elems(args["frontends"]) ELSE {})
                   \cup {fe \in FRONTENDS : GetAttr(args, "enable_" \o fe \o "_frontend")}
    IN  [k \in {"ENABLE_OV_" \o Upper[fe] \o "_FRONTEND" : fe \in FRONTENDS} |->
            IF \E fe \in fe_list \cap FRONTENDS : k = "ENABLE_OV_" \o Upper[fe] \o "_FRONTEND"
            THEN "ON" ELSE "OFF"]

PluginDefs(args) ==
    LET pl_list == (IF Truthy(args["plugins"]) THEN Elems(args["plugins"]) ELSE {})
                   \cup {pl \in PLUGINS : GetAttr(args, "enable_" \o pl \o "_plugin")}
    IN  [k \in {"ENABLE_" \o Upper[pl] : pl \in PLUGINS} |->
            IF \E pl \in pl_list \cap PLUGINS : k = "ENABLE_" \o Upper[pl]
            THEN "ON" ELSE "OFF"]

CcDefs(args) ==
    IF args["enable_cc"] = StrV("collect")
    THEN [SELECTIVE_BUILD |-> "COLLECT", ENABLE_PROFILING_ITT |-> "ON"]
    ELSE IF args["enable_cc"] = StrV("apply")
         THEN [SELECTIVE_BUILD |-> "ON", ENABLE_PROFILING_ITT |-> "OFF",
               SELECTIVE_BUILD_STAT |-> StrOf(args["cc_stat_file"])]
         ELSE EmptyMap

MoldDefs(args) ==
    IF Truthy(args["use_mold"])
    THEN [CMAKE_EXE_LINKER_FLAGS |-> "-fuse-ld=mold", CMAKE_SHARED_LINKER_FLAGS |-> "-fuse-ld=mold",
          CMAKE_MODULE_LINKER_FLAGS |-> "-fuse-ld=mold"]
    ELSE EmptyMap

ArchDefs(args) ==
    IF Truthy(args["arch"])
    THEN ("CMAKE_TOOLCHAIN_FILE" :> toolchains[args["arch"].v]) @@
         (IF args["arch"] = StrV("riscv") THEN ("RISCV_TOOLCHAIN_ROOT" :> "/opt/riscv") ELSE EmptyMap)
    ELSE EmptyMap

\* _collect_cmake_defs: status "ok" with the definitions, or the exception raised.
\* Later assignments to a key replace earlier ones.
CollectCmakeDefs(args) ==
    IF InvalidEnables(args) # {}
    THEN [status |-> "ValueError", defs |-> EmptyMap]
    ELSE IF Truthy(args["enable_sanitizer"]) /\ args["enable_sanitizer"].v \notin DOMAIN san_map
    THEN [status |-> "KeyError", defs |-> EmptyMap]
    ELSE IF Truthy(args["arch"]) /\ args["arch"].v \notin DOMAIN toolchains
    THEN [status |-> "KeyError", defs |-> EmptyMap]
    ELSE [status |-> "ok",
          defs |-> ArchDefs(args) @@ MoldDefs(args) @@ CcDefs(args) @@ PluginDefs(args) @@
                   FrontendDefs(args) @@
                   (IF Truthy(args["use_ccache"]) THEN [CMAKE_CXX_COMPILER_LAUNCHER |-> "ccache"] ELSE EmptyMap) @@
                   SanitizerDefs(args) @@
                   [THREADING |-> args["threading"].v] @@
                   GenericDefs(args) @@
                   [CMAKE_BUILD_TYPE |-> args["build_type"].v,
                    CMAKE_EXPORT_COMPILE_COMMANDS |-> "ON",
                    OUTPUT_ROOT |-> IF Truthy(args["output_root"]) THEN args["output_root"].v ELSE "ROOT"]]

\* the variables of the environment that hold compiler and linker flags
EnvVars == {"CFLAGS", "CXXFLAGS", "LDFLAGS"}

\* os.environ.get(var, ""): a variable that is not set reads as ""
EnvGet(env, var) == IF var \in DOMAIN env THEN env[var] ELSE ""

\* _initial_env with LDFLAGS of gprof assigned, not appended to
InitialEnvAssigning(args, env) ==
    LET e1 == IF Truthy(args["native_compilation"])
              THEN [var \in EnvVars |-> EnvGet(env, var) \o " -march=native"] @@ env
              ELSE env
        e2 == IF Truthy(args["linux_perf"])
              THEN ("LDFLAGS" :> EnvGet(e1, "LDFLAGS") \o " -g") @@
                   [var \in {"CFLAGS", "CXXFLAGS"} |-> EnvGet(e1, var) \o " -fno-omit-frame-pointer -g -ggdb"] @@ e1
              ELSE e1
    IN  IF Truthy(args["gprof"])
        THEN ("LDFLAGS" :> " -g -pg") @@
             [var \in {"CFLAGS", "CXXFLAGS"} |-> EnvGet(e2, var) \o " -fno-omit-frame-pointer -g -pg"] @@ e2
        ELSE e2

\* _initial_env: the compiler and linker flags of os.environ after it
InitialEnv(args, env) ==
    LET e1 == IF Truthy(args["native_compilation"])
              THEN [var \in EnvVars |-> EnvGet(env, var) \o " -march=native"] @@ env
              ELSE env
        e2 == IF Truthy(args["linux_perf"])
              THEN ("LDFLAGS" :> EnvGet(e1, "LDFLAGS") \o " -g") @@
                   [var \in {"CFLAGS", "CXXFLAGS"} |-> EnvGet(e1, var) \o " -fno-omit-frame-pointer -g -ggdb"] @@ e1
              ELSE e1
    IN  IF Truthy(args["gprof"])
        THEN ("LDFLAGS" :> EnvGet(e2, "LDFLAGS") \o " -g -pg") @@
             [var \in {"CFLAGS", "CXXFLAGS"} |-> EnvGet(e2, var) \o " -fno-omit-frame-pointer -g -pg"] @@ e2
        ELSE e2

\* add_arg
add_arg(cmd, flag, value) ==
    IF value = None \/ value = BoolV(TRUE) THEN Append(cmd, flag)
    ELSE IF value.t = "list" THEN Append(cmd, flag) \o value.v
    ELSE cmd \o <<flag, StrOf(value)>>

(***************************************************************************)
(* The inputs of a run: the command line and the two layer files.  An      *)
(* input is a set of at most MaxSupplied items: pieces of the command line *)
(* (one option each, in the spelling given), entries of .build and of the  *)
(* import file cfg.yaml, or what is wrong with one of these files.         *)
(***************************************************************************)
MaxSupplied == 3

Piece(key, ord, toks) == [src |-> "cli", key |-> key, ord |-> ord, toks |-> toks, val |-> None]
Entry(src, key, val) == [src |-> src, key |-> key, ord |-> 0, toks |-> <<>>, val |-> val]
\* the file of src is not a mapping of options: content is what it holds
Broken(src, content) == [src |-> src, key |-> "<file>", ord |-> 0, toks |-> <<>>, val |-> content]

CliItems ==
    << Piece("configure", 1, <<Opt("-c")>>),
       Piece("configure", 1, <<Opt("-c"), Opt("-c")>>),
       Piece("configure", 1, <<OptRep("-c", 2)>>),
       Piece("verbose", 2, <<Opt("-v")>>),
       Piece("verbose", 2, <<OptRep("-v", 2)>>),
       Piece("build_type", 3, <<Opt("-b"), Word("Debug")>>),
       Piece("build_type", 3, <<OptJoined("--build-type", "Debug")>>),
       Piece("build_type", 3, <<Opt("--build-type"), Word("Release")>>),
       Piece("enable_sanitizer", 4, <<Opt("--enable-sanitizer"), Word("on")>>),
       Piece("enable_sanitizer", 4, <<Opt("--enable-sanitizer"), Word("off")>>),
       Piece("enable_cc", 5, <<Opt("--enable-cc"), Word("apply")>>),
       Piece("enable_cc", 5, <<Opt("--enable-cc"), Word("collect")>>),
       Piece("cc_stat_file", 6, <<Opt("--cc-stat-file"), Word("stat.csv")>>),
       Piece("quiet", 7, <<Opt("-q")>>),
       Piece("ignore_config", 8, <<Opt("--ignore-config")>>),
       Piece("export_file", 9, <<Opt("--export"), Word("out.yaml")>>),
       Piece("import_file", 10, <<Opt("--import"), Word("cfg.yaml")>>),
       Piece("completion", 11, <<Opt("--completion"), Word("bash")>>),
       Piece("threading", 12, <<Opt("--threading"), Word("OMP")>>),
       Piece("parallel", 13, <<OptJoined("-j", "4")>>),
       Piece("threading", 12, <<Opt("--threading"), Word("SEQ")>>),
       Piece("arch", 15, <<Opt("-a"), Word("arm")>>),
       Piece("native_compilation", 16, <<Opt("--native-compilation")>>),
       Piece("enable_openvino_debug", 17, <<Opt("--enable-openvino-debug"), Word("on")>>),
       Piece("enable_openvino_debug", 17, <<Opt("--enable-openvino-debug"), Word("off")>>),
       Piece("enable_profiling_itt", 18, <<Opt("--enable-profiling-itt"), Word("on")>>),
       Piece("enable_profiling_itt", 18, <<Opt("--enable-profiling-itt"), Word("off")>>),
       Piece("frontends", 19, <<Opt("--frontends"), Word("onnx"), Word("tf"), Word("onnx")>>),
       Piece("plugins", 20, <<Opt("--plugins"), Word("intel_cpu")>>),
       Piece("target", 30, <<Word("t1")>>),
       Piece("target", 30, <<Word("t1"), Word("t2")>>) >>

BuildItems ==
    << Entry("build", "configure", IntV(1)),
       Entry("build", "verbose", IntV(2)),
       Entry("build", "build_type", StrV("Debug")),
       Entry("build", "enable_cc", StrV("apply")),
       Entry("build", "target", ListV(<<"t2">>)),
       Entry("build", "quiet", BoolV(TRUE)),
       Entry("build", "bogus", IntV(1)),
       Broken("build", Unreadable),
       Broken("build", BadYaml),
       Broken("build", YamlDump(ListV(<<"configure">>))) >>

ImportItems ==
    << Entry("import", "configure", IntV(2)),
       Entry("import", "build_type", StrV("RelWithDebInfo")),
       Entry("import", "enable_sanitizer", StrV("asan")),
       Entry("import", "cc_stat_file", StrV("")),
       Entry("import", "target", ListV(<<"t3">>)),
       Entry("import", "enable_openvino_debug", StrV("maybe")),
       Entry("import", "bogus", IntV(1)),
       Broken("import", BadYaml),
       Broken("import", YamlDump(StrV("configure"))) >>

\* the options that take one or more values (nargs='+')
ListKeys == {d \in Dests : Actions[d].action = "list"}

\* one item for an option in a source, and nothing beside a broken file; no
\* targets on a command line with a list option, which would take them for its
\* own values (argparse then rejects the command line)
Compatible(x, y) ==
    /\ x.key # y.key /\ x.key # "<file>" /\ y.key # "<file>"
    /\ ~(x.src = "cli" /\ y.src = "cli" /\ "target" \in {x.key, y.key}
            /\ {x.key, y.key} \cap ListKeys # {})

\* the sets of n compatible items among items[i..]
RECURSIVE Pick(_, _, _)
Pick(items, i, n) ==
    IF n = 0 THEN {{}}
    ELSE IF i > Len(items) THEN {}
    ELSE Pick(items, i + 1, n) \cup
         {S \cup {items[i]} :
            S \in {T \in Pick(items, i + 1, n - 1) : \A z \in T : Compatible(items[i], z)}}

Sizes == 0..MaxSupplied
CliSets == [n \in Sizes |-> Pick(CliItems, 1, n)]
BuildSets == [n \in Sizes |-> Pick(BuildItems, 1, n)]
ImportSets == [n \in Sizes |-> Pick(ImportItems, 1, n)]

\* --import is on the command line
Imports(cli) == \E x \in cli : x.key = "import_file"

\* the pieces of the command line in the order of their ord
RECURSIVE ArgvOf(_)
ArgvOf(S) ==
    LET cli == {x \in S : x.src = "cli"}
    IN  IF cli = {} THEN <<>>
        ELSE LET x == CHOOSE y \in cli : \A z \in cli : y.ord <= z.ord
             IN  x.toks \o ArgvOf(S \ {x})

\* the file written by the items of src: none when there are none
FileOf(S, src) ==
    LET mine == {x \in S : x.src = src}
    IN  IF mine = {} THEN NoFile
        ELSE IF \E x \in mine : x.key = "<file>" THEN (CHOOSE x \in mine : x.key = "<file>").val
        ELSE YamlDump(DictV([k \in {x.key : x \in mine} |-> (CHOOSE x \in mine : x.key = k).val]))

\* the exit codes a child process ends with; a negative code is subprocess's
\* report of a child killed by a signal
ChildCodes == {0, 1, 2, -9}

\* the exit status of the script for sys.exit(n)
ExitStatus(n) == n % 256

(***************************************************************************)
(* The state of a run of build.py.                                         *)
(***************************************************************************)
VARIABLES
    run,        \* 1: the first run, 2: the run that imports what the first exported
    argv,       \* sys.argv[1:]
    files,      \* the file system: path -> content
    pc,         \* where run() is
    args,       \* the parsed namespace (vars(args))
    defaults,   \* the merged layers
    buildDir,   \* the build directory made
    defs,       \* the CMake definitions synthesized
    procs,      \* the external processes started, in order
    exit,       \* None while running, then the exit status
    stderr,     \* the lines written to the error stream
    stdout,     \* the lines written to standard output
    first,      \* the first run, remembered by the second
    environ     \* os.environ: the variables that are set, with their value

vars == <<run, argv, files, pc, args, defaults, buildDir, defs, procs, exit, stderr, stdout, first, environ>>

\* the environment the script is started in: CFLAGS and LDFLAGS set, CXXFLAGS not
ShellEnv == [CFLAGS |-> "-O2", LDFLAGS |-> "-L/opt/lib"]

NoRun == [argv |-> <<>>, args |-> EmptyMap, defaults |-> EmptyMap]

Init ==
    \E nc \in Sizes : \E nb \in 0..(MaxSupplied - nc) : \E ni \in 0..(MaxSupplied - nc - nb) :
    \E cli \in CliSets[nc] : \E build \in BuildSets[nb] : \E imp \in ImportSets[ni] :
    LET S == cli \cup build \cup imp IN
        \* an import file is given only together with --import
        /\ ni > 0 => Imports(cli)
        /\ run = 1
        /\ argv = ArgvOf(S)
        /\ files = [p \in {".build", "cfg.yaml", "out.yaml", "out2.yaml"} |->
                        CASE p = ".build" -> FileOf(S, "build")
                          [] p = "cfg.yaml" -> FileOf(S, "import")
                          [] OTHER -> NoFile]
        /\ pc = "start"
        /\ args = EmptyMap /\ defaults = EmptyMap
        /\ buildDir = "" /\ defs = EmptyMap
        /\ procs = <<>> /\ exit = None
        /\ stderr = <<>> /\ stdout = <<>>
        /\ first = NoRun
        /\ environ = ShellEnv

\* sys.exit(n), or the end of the script
Terminate(n) == pc' = "exited" /\ exit' = IntV(ExitStatus(n))

\* run(), lines 445-446: import_if_provided
Import ==
    /\ pc = "start"
    /\ LET r == ImportIfProvided(argv, files)
       IN  /\ stderr' = stderr \o r.err
           /\ args' = r.args
           /\ defaults' = r.defaults
           /\ IF r.status = "ok"
              THEN pc' = "parsed" /\ exit' = exit
              ELSE Terminate(1)
    /\ UNCHANGED <<run, argv, files, buildDir, defs, procs, stdout, first, environ>>

\* run(), lines 449-451: export_args, whose open() may fail
Export ==
    /\ pc = "parsed"
    /\ Truthy(args["export_file"])
    /\ \/ /\ files' = (args["export_file"].v :> YamlDump(DictV(ToExport(argv, args, defaults)))) @@ files
          /\ stdout' = Append(stdout, "Exported parameters")
          /\ stderr' = stderr
          /\ Terminate(0)
       \/ /\ files' = files
          /\ stdout' = stdout
          /\ stderr' = Append(stderr, "Error: Unable to export to file")
          /\ Terminate(1)
    /\ UNCHANGED <<run, argv, args, defaults, buildDir, defs, procs, first, environ>>

\* run(), lines 454-463: the shell completion script
Completion ==
    /\ pc = "parsed"
    /\ ~Truthy(args["export_file"])
    /\ Truthy(args["completion"])
    /\ stdout' = Append(stdout, "shellcode")
    /\ Terminate(0)
    /\ UNCHANGED <<run, argv, files, args, defaults, buildDir, defs, procs, stderr, first, environ>>

\* the quiet flag forgotten: the verbosity stays what it is
NotQuieted(a) == a

\* the quiet flag, line 488
Quieted(a) == IF Truthy(a["quiet"]) THEN [a EXCEPT !["verbose"] = IntV(0)] ELSE a

\* the argparse sentinel, lines 471-472
Stripped(a) ==
    IF a["target"].v # <<>> /\ (\E i \in 1..Len(a["target"].v) : a["target"].v[i] = "--")
       /\ a["target"].v[1] = ""
    THEN [a EXCEPT !["target"] = ListV(Tail(a["target"].v))]
    ELSE a

\* the test of line 466 with "is None" for "not": an empty path passes
NeedsStatFileWhenNone(a) == a["enable_cc"] = StrV("apply") /\ a["cc_stat_file"] = None

\* the validation of selective compilation, line 466
NeedsStatFile(a) == a["enable_cc"] = StrV("apply") /\ ~Truthy(a["cc_stat_file"])

\* run(), lines 465-502: validation, cmake, the build directory, the configure command
Prepare ==
    /\ pc = "parsed"
    /\ ~Truthy(args["export_file"])
    /\ ~Truthy(args["completion"])
    /\ UNCHANGED <<run, argv, files, defaults, procs, stdout, first>>
    /\ IF NeedsStatFile(args)
       THEN /\ stderr' = Append(stderr, "Error: --cc-stat-file is required when --enable-cc apply")
            /\ Terminate(1)
            /\ UNCHANGED <<args, buildDir, defs, environ>>
       ELSE \/ \* shutil.which('cmake') finds nothing
               /\ args' = Stripped(args)
               /\ stderr' = Append(stderr, "Error: cmake not found in PATH")
               /\ Terminate(1)
               /\ UNCHANGED <<buildDir, defs, environ>>
            \/ LET a == Quieted(Stripped(args))
                   synth == CollectCmakeDefs(a)
               IN  /\ args' = a
                   /\ buildDir' = ComputeBuildDir(args)
                   /\ environ' = InitialEnv(args, environ)
                   /\ defs' = synth.defs
                   /\ IF synth.status = "ok"
                      THEN pc' = "ready" /\ exit' = exit /\ stderr' = stderr
                      ELSE /\ stderr' = stderr \o Traceback(synth.status)
                           /\ Terminate(1)

\* the configure counter asks for the configure step, line 505
WantsConfigure(a) == Truthy(a["configure"]) /\ a["configure"].v > 0

\* the configure counter asks for nothing after it, line 508
ConfigureOnly(a) == Truthy(a["configure"]) /\ a["configure"].v > 1

\* cmake_cmd, lines 491-498, without its -D options, which are defs
cmake_cmd ==
    <<"cmake", IF Truthy(args["verbose"]) THEN "--log-level=DEBUG" ELSE "--log-level=ERROR",
      "ROOT", "-B", buildDir>>

\* build_cmd, lines 512-523
build_cmd ==
    LET c0 == <<"cmake", "--build", buildDir>>
        c1 == IF args["parallel"] # None
              THEN IF args["parallel"] # IntV(-1)
                   THEN add_arg(c0, "--parallel", args["parallel"])
                   ELSE add_arg(c0, "--parallel", None)
              ELSE c0
        c2 == add_arg(c1, "--target", args["target"])
    IN  IF args["verbose"] = IntV(0) THEN add_arg(c2, "--", StrV("--quiet")) ELSE c2

\* subprocess.run(cmake_cmd, check=True) starts the child, line 506
ConfigureStart ==
    /\ pc = "ready"
    /\ WantsConfigure(args)
    /\ procs' = Append(procs, [phase |-> "configure", cmd |-> cmake_cmd, defs |-> defs, rc |-> None])
    /\ pc' = "configuring"
    /\ UNCHANGED <<run, argv, files, args, defaults, buildDir, defs, exit, stderr, stdout, first, environ>>

\* the handler of CalledProcessError with sys.exit(1) for sys.exit(e.returncode)
FailedWithOne(rc) ==
    /\ stdout' = Append(stdout, "Command failed with exit code")
    /\ Terminate(1)

\* the __main__ handler of CalledProcessError, lines 534-536
Failed(rc) ==
    /\ stdout' = Append(stdout, "Command failed with exit code")
    /\ Terminate(rc)

\* ... and the child ends, lines 506-509
ConfigureExit ==
    /\ pc = "configuring"
    /\ \E rc \in ChildCodes :
        /\ procs' = [procs EXCEPT ![Len(procs)].rc = IntV(rc)]
        /\ IF rc # 0 THEN Failed(rc)
           ELSE IF ConfigureOnly(args) THEN stdout' = stdout /\ Terminate(0)
           ELSE stdout' = stdout /\ pc' = "configured" /\ exit' = exit
    /\ UNCHANGED <<run, argv, files, args, defaults, buildDir, defs, stderr, first, environ>>

\* subprocess.run(build_cmd, check=True) starts the child, lines 512-528
BuildStart ==
    /\ \/ pc = "configured"
       \/ pc = "ready" /\ ~WantsConfigure(args)
    /\ procs' = Append(procs, [phase |-> "build", cmd |-> build_cmd, defs |-> EmptyMap, rc |-> None])
    /\ pc' = "building"
    /\ UNCHANGED <<run, argv, files, args, defaults, buildDir, defs, exit, stderr, stdout, first, environ>>

\* ... and the child ends, line 528
BuildExit ==
    /\ pc = "building"
    /\ \E rc \in ChildCodes :
        /\ procs' = [procs EXCEPT ![Len(procs)].rc = IntV(rc)]
        /\ IF rc # 0 THEN Failed(rc) ELSE stdout' = stdout /\ Terminate(0)
    /\ UNCHANGED <<run, argv, files, args, defaults, buildDir, defs, stderr, first, environ>>

\* the command lines of the run that imports the exported file
ReimportArgvs ==
    { <<Opt("--import"), Word("out.yaml")>>,
      <<Opt("--import"), Word("out.yaml"), Opt("--export"), Word("out2.yaml")>> }

\* After a run that exported, the user runs the script again on the exported file,
\* with or without the .build file of the first run.
Reimport ==
    /\ pc = "exited" /\ run = 1
    /\ Exists(files["out.yaml"])
    /\ run' = 2
    /\ first' = [argv |-> argv, args |-> args, defaults |-> defaults]
    /\ argv' \in ReimportArgvs
    /\ \/ files' = files
       \/ files' = [files EXCEPT ![".build"] = NoFile]
    /\ pc' = "start"
    /\ args' = EmptyMap /\ defaults' = EmptyMap
    /\ buildDir' = "" /\ defs' = EmptyMap
    /\ procs' = <<>> /\ exit' = None
    /\ stderr' = <<>> /\ stdout' = <<>>
    /\ environ' = ShellEnv

Next ==
    \/ Import
    \/ Export
    \/ Completion
    \/ Prepare
    \/ ConfigureStart
    \/ ConfigureExit
    \/ BuildStart
    \/ BuildExit
    \/ Reimport

Spec == Init /\ [][Next]_vars

(***************************************************************************)
(* _initial_env alone: from any environment of the three variables and any *)
(* combination of --native-compilation, --linux-perf and --gprof.          *)
(***************************************************************************)
\* the environments: each variable not set, or set to one of two values
ShellEnvs == UNION {[S -> {"-O2", "-L/opt/lib"}] : S \in SUBSET EnvVars}

InitEnv ==
    \E n \in BOOLEAN : \E p \in BOOLEAN : \E g \in BOOLEAN : \E env \in ShellEnvs :
        /\ run = 1 /\ argv = <<>>
        /\ files = [f \in {".build", "cfg.yaml", "out.yaml", "out2.yaml"} |-> NoFile]
        /\ pc = "env"
        /\ args = [SchemaDefaults EXCEPT !["native_compilation"] = BoolV(n),
                                         !["linux_perf"] = BoolV(p),
                                         !["gprof"] = BoolV(g)]
        /\ defaults = EmptyMap
        /\ buildDir = "" /\ defs = EmptyMap
        /\ procs = <<>> /\ exit = None
        /\ stderr = <<>> /\ stdout = <<>>
        /\ first = NoRun
        /\ environ = env

\* run(), line 485
ApplyEnv ==
    /\ pc = "env"
    /\ environ' = InitialEnv(args, environ)
    /\ pc' = "envdone"
    /\ UNCHANGED <<run, argv, files, args, defaults, buildDir, defs, procs, exit, stderr, stdout, first>>

NextEnv == ApplyEnv

SpecEnv == InitEnv /\ [][NextEnv]_vars

(***************************************************************************)
(* What the claims speak of.                                               *)
(***************************************************************************)
\* import_if_provided has returned: the namespace exists
Parsed == args # EmptyMap

\* what the command line resolves to over the schema defaults alone
CliAlone ==
    LET known == ParseKnownArgs(argv)
    IN  [ParseArgs(EmptyMap, known.remaining) EXCEPT !["import_file"] = known.import_file,
                                                     !["ignore_config"] = known.ignore_config]

\* the command line names option d, in any spelling, or ends with targets
CliSupplies(d) ==
    \/ \E i \in 1..Len(argv) : argv[i].k = "opt" /\ argv[i].opt \in Actions[d].opts
    \/ d = "target" /\ CliAlone["target"] # ListV(<<>>)

\* the options a layer file holds
LayerOf(content) ==
    IF content.kind = "doc" /\ content.obj.t = "dict"
    THEN [k \in DOMAIN content.obj.v \cap ValidDests |-> content.obj.v[k]]
    ELSE EmptyMap

PersistedLayer == IF CliAlone["ignore_config"] = BoolV(TRUE) THEN EmptyMap ELSE LayerOf(files[".build"])

ImportLayer ==
    IF Truthy(CliAlone["import_file"]) THEN LayerOf(FileAt(files, CliAlone["import_file"].v)) ELSE EmptyMap

\* the value of the highest-ranked source that supplies option d
ByPrecedence(d) ==
    IF CliSupplies(d) THEN CliAlone[d]
    ELSE IF d \in DOMAIN ImportLayer THEN ImportLayer[d]
    ELSE IF d \in DOMAIN PersistedLayer THEN PersistedLayer[d]
    ELSE SchemaDefaults[d]

\* C1: once the sources are merged, every option has the value of the
\* highest-ranked source that supplies it: schema default < .build < --import file
\* < command line; a command-line value replaces a layer's value.
C1_MergePrecedence ==
    (Parsed /\ pc = "parsed") => \A d \in Dests : args[d] = ByPrecedence(d)

\* the run that imports the exported file, with no further flag but --export,
\* and without a .build file
ReexportRun ==
    /\ run = 2
    /\ argv = <<Opt("--import"), Word("out.yaml"), Opt("--export"), Word("out2.yaml")>>
    /\ files[".build"] = NoFile

\* C2: exporting, then importing the exported file and exporting again, writes a
\* document with the same keys and the same value for every key.
C2_ExportRoundTripDocument ==
    (ReexportRun /\ Exists(files["out2.yaml"])) => files["out2.yaml"] = files["out.yaml"]

\* what synthesis makes of a namespace: the definitions (or the exception) and
\* the build directory
Synthesis(a) == [defs |-> CollectCmakeDefs(a), dir |-> ComputeBuildDir(a)]

\* the run that imports the exported file with no further flag, and without a
\* .build file, after a first run of a command line alone
ReimportRun ==
    /\ run = 2
    /\ argv = <<Opt("--import"), Word("out.yaml")>>
    /\ files[".build"] = NoFile
    /\ first.defaults = EmptyMap

\* the namespace of the first run's command line without its --export
FirstArgs == [first.args EXCEPT !["export_file"] = None]

\* C3: the run that imports the file exported from a command line synthesizes the
\* definitions and the build directory of the run with that command line.
C3_ExportRoundTripSynthesis ==
    (ReimportRun /\ Parsed) => Synthesis(args) = Synthesis(FirstArgs)

\* the options whose provenance is a layer file or the command line
ExplicitlyProvided ==
    {d \in Dests : CliSupplies(d) \/ d \in DOMAIN ImportLayer \/ d \in DOMAIN PersistedLayer}

\* the first run has exported
Exported == run = 1 /\ pc = "exited" /\ Exists(files["out.yaml"])

\* C4: the exported keys are exactly the options whose provenance is a layer file
\* or the command line (the export and import paths themselves left aside).
C4_ExportedKeysAreProvenance ==
    Exported =>
        DOMAIN files["out.yaml"].obj.v = ExplicitlyProvided \ {"export_file", "import_file"}

\* the layer files the run asks for
PersistedAsked == CliAlone["ignore_config"] # BoolV(TRUE) /\ Exists(files[".build"])
ImportAsked == Truthy(CliAlone["import_file"])
ImportContent == IF ImportAsked THEN FileAt(files, CliAlone["import_file"].v) ELSE NoFile

\* a file that is no mapping of options: missing, unreadable, not YAML, or a
\* document that is neither a mapping nor empty
FailsToLoad(content) ==
    \/ content.kind # "doc"
    \/ content.obj.t \notin {"dict", "none"}

\* the keys of a layer file that are no option of the schema
UnknownKeys(content) ==
    IF content.kind = "doc" /\ content.obj.t = "dict" THEN DOMAIN content.obj.v \ ValidDests ELSE {}

UnknownPersisted == IF PersistedAsked THEN UnknownKeys(files[".build"]) ELSE {}
UnknownImported == IF ImportAsked THEN UnknownKeys(ImportContent) ELSE {}

\* the lines of stderr that are line
Count(line) == Cardinality({i \in 1..Len(stderr) : stderr[i] = line})

\* the unknown keys are warned of and dropped, and the run goes on
WarnedAndDropped(keys) ==
    /\ Parsed
    /\ keys \cap DOMAIN defaults = {}
    /\ keys \cap DOMAIN args = {}
    /\ Count("Warning: Unknown option; ignoring") >= Cardinality(keys)

\* the run has ended with exit code 1 and has started no process
Aborted == pc = "exited" /\ exit = IntV(1) /\ procs = <<>>

\* some layer file the run asks for does not load
SomeLayerFails ==
    \/ PersistedAsked /\ FailsToLoad(files[".build"])
    \/ ImportAsked /\ FailsToLoad(ImportContent)

C6_LoadFailureByCriticality ==
    pc # "start" =>
        /\ (ImportAsked /\ FailsToLoad(ImportContent)) => Aborted
        /\ (PersistedAsked /\ FailsToLoad(files[".build"])
              /\ ~(ImportAsked /\ FailsToLoad(ImportContent))) =>
                /\ Parsed
                /\ defaults = ImportLayer
                /\ Count("Warning: Unable to load file") = 1

\* the merged configuration asks to apply the statistics and names no stat file
ApplyWithoutStatFile ==
    Parsed /\ args["enable_cc"] = StrV("apply") /\ args["cc_stat_file"] \in {None, StrV("")}

\* the run has failed the validation of selective compilation
FailedValidation ==
    /\ exit = IntV(1)
    /\ Count("Error: --cc-stat-file is required when --enable-cc apply") = 1

\* the run is one of the side branches: export or shell completion
SideBranch == Truthy(args["export_file"]) \/ Truthy(args["completion"])

\* C7 (as claimed): a run whose merged configuration applies the statistics
\* without a stat file starts no process and ends failing validation with exit
\* code 1, whatever its other flags are.
C7_ApplyNeedsStatFileAlways ==
    ApplyWithoutStatFile => procs = <<>> /\ (pc = "exited" => FailedValidation)

\* C7 (amended): such a run starts no process whatever its other flags are, and
\* it ends failing validation with exit code 1 unless it is given --export or
\* --completion, which end the run before the validation.
C7_ApplyNeedsStatFile ==
    ApplyWithoutStatFile =>
        procs = <<>> /\ ((pc = "exited" /\ ~SideBranch) => FailedValidation)

\* C7 happens: a run told to configure, with an empty stat-file path, has failed
C7_Witness ==
    /\ ApplyWithoutStatFile /\ ~SideBranch /\ pc = "exited"
    /\ args["cc_stat_file"] = StrV("")
    /\ FailedValidation

Phases == [i \in 1..Len(procs) |-> procs[i].phase]

\* the resolved configure counter
Counter == IF args["configure"] = None THEN 0 ELSE args["configure"].v

\* the run is not a side branch and no error of validation or of the environment
\* was reported
PassesValidation ==
    /\ Parsed /\ ~SideBranch
    /\ Count("Error: --cc-stat-file is required when --enable-cc apply") = 0
    /\ Count("Error: cmake not found in PATH") = 0
    /\ InvalidEnables(args) \subseteq {"enable_cc", "enable_sanitizer"}

\* C9: the configure counter alone determines the processes of a run that passes
\* validation: unset or 0, build only; 1, configure and, once it has ended with 0,
\* build; 2 or more, configure only and success.  Build never starts before
\* configure has ended, and at most one configure and one build are started.
C9_CounterDeterminesInvocations ==
    /\ Phases \in {<<>>, <<"configure">>, <<"build">>, <<"configure", "build">>}
    /\ Len(procs) = 2 => procs[1].rc = IntV(0)
    /\ (PassesValidation /\ pc = "exited" /\ \A i \in 1..Len(procs) : procs[i].rc = IntV(0)) =>
        /\ Counter = 0 => Phases = <<"build">>
        /\ Counter = 1 => Phases = <<"configure", "build">>
        /\ Counter >= 2 => Phases = <<"configure">> /\ exit = IntV(0)

\* the definitions that name a sanitizer
SanitizerKeys == {san_map[k] : k \in DOMAIN san_map}

\* C10: when a sanitizer is selected, synthesis succeeds and its definitions hold
\* exactly one sanitizer definition set to ON, the one of the lookup table, and
\* BUILD_SHARED_LIBS=OFF.
C10_SanitizerSelection ==
    (Parsed /\ Truthy(args["enable_sanitizer"])) =>
        LET synth == CollectCmakeDefs(args)
        IN  /\ synth.status = "ok"
            /\ {k \in DOMAIN synth.defs \cap SanitizerKeys : synth.defs[k] = "ON"}
                  = {san_map[args["enable_sanitizer"].v]}
            /\ synth.defs["BUILD_SHARED_LIBS"] = "OFF"

\* what _collect_cmake_defs makes of the namespace of the run
Synth == CollectCmakeDefs(args)

\* C11: with mode collect synthesis succeeds and gives SELECTIVE_BUILD=COLLECT and
\* ENABLE_PROFILING_ITT=ON; with mode apply and a stat file it succeeds and gives
\* SELECTIVE_BUILD=ON, ENABLE_PROFILING_ITT=OFF and SELECTIVE_BUILD_STAT, the
\* path; whatever the profiling-itt option is.
C11_SelectiveBuildDefinitions ==
    Parsed =>
        /\ args["enable_cc"] = StrV("collect") =>
              /\ Synth.status = "ok"
              /\ Synth.defs["SELECTIVE_BUILD"] = "COLLECT"
              /\ Synth.defs["ENABLE_PROFILING_ITT"] = "ON"
        /\ (args["enable_cc"] = StrV("apply") /\ Truthy(args["cc_stat_file"])) =>
              /\ Synth.status = "ok"
              /\ Synth.defs["SELECTIVE_BUILD"] = "ON"
              /\ Synth.defs["ENABLE_PROFILING_ITT"] = "OFF"
              /\ Synth.defs["SELECTIVE_BUILD_STAT"] = args["cc_stat_file"].v

\* the options of ON_OFF_FLAGS that the model follows
TriStateOptions == {"enable_sanitizer", "enable_openvino_debug", "enable_profiling_itt"}

\* C12: for every on/off option X and value v of on and off, synthesis of a
\* configuration with X = v succeeds and defines ENABLE_<X in upper case> as v in
\* upper case; any other value of such an option is a validation error.
\* (Configurations without a conditional-compilation mode, which has its own
\* definitions, and with no other option at an invalid value.)
C12_TriStateDefinitions ==
    (Parsed /\ args["enable_cc"] = None) =>
        \A X \in TriStateOptions :
            /\ (args[X] \in {StrV("on"), StrV("off")} /\ InvalidEnables(args) = {}) =>
                  /\ Synth.status = "ok"
                  /\ Synth.defs["ENABLE_" \o Upper[EnableSuffix[X]]] = Upper[args[X].v]
            /\ (args[X] \notin {StrV("on"), StrV("off"), None}) => Synth.status = "ValueError"

\* the frontends and plugins the configuration selects, by the list or by a flag
\* of their own
SelectedFrontends ==
    {fe \in FRONTENDS : fe \in Elems(args["frontends"]) \/ GetAttr(args, "enable_" \o fe \o "_frontend")}
SelectedPlugins ==
    {pl \in PLUGINS : pl \in Elems(args["plugins"]) \/ GetAttr(args, "enable_" \o pl \o "_plugin")}

FrontendKey(fe) == "ENABLE_OV_" \o Upper[fe] \o "_FRONTEND"
PluginKey(pl) == "ENABLE_" \o Upper[pl]

\* the synthesis of the run has succeeded: its definitions are those of cmake_cmd
Synthesized == Parsed /\ defs # EmptyMap

DirFields ==
    {"build_type", "arch", "threading", "native_compilation", "enable_sanitizer",
     "enable_openvino_debug"}

\* values of the other fields: unset, a text, a number, a flag, a list
OtherValues == {None, StrV("apply"), IntV(4), BoolV(TRUE), ListV(<<"t9">>)}

\* the run has made its build directory
DirMade == Parsed /\ buildDir # ""

\* C14: the name of the build directory depends on the six fields only: a
\* configuration that differs from the one of the run in any other field (target
\* list, parallelism, verbosity, frontends, plugins, other options, configure
\* counter) has the directory of the run.
C14_BuildDirOfSixFields ==
    DirMade =>
        \A d \in Dests \ DirFields : \A v \in OtherValues :
            ComputeBuildDir([args EXCEPT ![d] = v]) = buildDir

\* C14 happens: a run with targets and a conditional-compilation mode has made
\* the directory of its build type
C14_Witness ==
    /\ DirMade /\ args["target"] = ListV(<<"t1", "t2">>) /\ args["enable_cc"] = StrV("collect")
    /\ buildDir = "build_Debug"

\* a tri-state feature is enabled: set, and not 'off'
Enabled(x) == Truthy(x) /\ x # StrV("off")

\* the suffixes of the directory name, each present only when its feature is
\* enabled
ArchSuffix(a) == IF a["arch"] # None THEN "_" \o a["arch"].v ELSE ""
ThreadingSuffix(a) == IF a["threading"] = StrV("OMP") THEN "_omp" ELSE ""
NativeSuffix(a) == IF Truthy(a["native_compilation"]) THEN "_native_comp" ELSE ""
SanitizerSuffix(a) == IF Enabled(a["enable_sanitizer"]) THEN "_" \o a["enable_sanitizer"].v ELSE ""
DebugSuffix(a) == IF Enabled(a["enable_openvino_debug"]) THEN "_ov_debug" ELSE ""

\* C15: the directory name is build_ and the build type, then the suffix of the
\* architecture, of the threading backend, of native compilation, of the
\* sanitizer and of debug mode, in this order, each present only when its
\* feature is enabled ('build_Debug_arm_omp').
C15_BuildDirFormat ==
    DirMade =>
        buildDir = "build_" \o args["build_type"].v \o ArchSuffix(args) \o ThreadingSuffix(args)
                      \o NativeSuffix(args) \o SanitizerSuffix(args) \o DebugSuffix(args)

\* the effective settings of a configuration for the six fields: an option that
\* is unset and one that is 'off' are the same setting
Effective(a) ==
    [ build_type |-> a["build_type"], arch |-> a["arch"], threading |-> a["threading"],
      native |-> Truthy(a["native_compilation"]),
      sanitizer |-> IF Enabled(a["enable_sanitizer"]) THEN a["enable_sanitizer"] ELSE None,
      debug |-> Enabled(a["enable_openvino_debug"]) ]

\* the values the command line gives to the six fields
DirFieldValues ==
    [ build_type |-> {StrV("Release"), StrV("Debug"), StrV("RelWithDebInfo")},
      arch |-> {None, StrV("x86"), StrV("arm"), StrV("arm32"), StrV("riscv")},
      threading |-> {StrV("TBB"), StrV("OMP"), StrV("SEQ")},
      native_compilation |-> {BoolV(FALSE), BoolV(TRUE)},
      enable_sanitizer |-> {None, StrV("on"), StrV("off")},
      enable_openvino_debug |-> {None, StrV("on"), StrV("off")} ]

\* C20: two configurations have the same directory name if and only if they
\* have the same effective settings for the six fields.
C20_BuildDirSeparatesConfigurations ==
    DirMade =>
        \A d \in DirFields : \A v \in DirFieldValues[d] :
            LET other == [args EXCEPT ![d] = v]
            IN  (ComputeBuildDir(other) = buildDir) <=> (Effective(other) = Effective(args))

\* the argument vectors of the build and of the configure processes started
BuildCmds == {procs[i].cmd : i \in {j \in 1..Len(procs) : procs[j].phase = "build"}}
ConfigureCmds == {procs[i].cmd : i \in {j \in 1..Len(procs) : procs[j].phase = "configure"}}

\* the argument vector has the flag at k and exactly the values after it, up to
\* its end or to the pass-through separator
FlagWithValues(cmd, k, flag, values) ==
    /\ k + Len(values) <= Len(cmd)
    /\ cmd[k] = flag
    /\ SubSeq(cmd, k + 1, k + Len(values)) = values
    /\ k + Len(values) = Len(cmd) \/ cmd[k + Len(values) + 1] = "--"

\* C16: the build is started with --target followed by exactly the targets
\* given, in order, when targets are given, and with no --target argument when
\* none is given.
C16_TargetsPassedThrough ==
    \A cmd \in BuildCmds :
        IF args["target"].v # <<>>
        THEN \E k \in 1..Len(cmd) : FlagWithValues(cmd, k, "--target", args["target"].v)
        ELSE \A k \in 1..Len(cmd) : cmd[k] # "--target"

\* the verbosity both phases use: 0 when quiet is set
EffectiveVerbosity == IF Truthy(args["quiet"]) THEN 0 ELSE args["verbose"].v

\* the argument vector ends with the quiet pass-through
EndsQuiet(cmd) == Len(cmd) >= 2 /\ SubSeq(cmd, Len(cmd) - 1, Len(cmd)) = <<"--", "--quiet">>

\* C17: when quiet is set, whatever the verbosity count, configure is started
\* with log level ERROR and the build with the quiet pass-through as its last
\* arguments; when the effective verbosity is not 0 there is no quiet
\* pass-through.
C17_QuietOverrulesVerbosity ==
    Parsed =>
        /\ Truthy(args["quiet"]) =>
              /\ \A cmd \in ConfigureCmds : cmd[2] = "--log-level=ERROR"
              /\ \A cmd \in BuildCmds : EndsQuiet(cmd)
        /\ EffectiveVerbosity # 0 =>
              \A cmd \in BuildCmds : \A k \in 1..Len(cmd) : cmd[k] # "--quiet"

\* C17 happens: -q with -vv (a count of 3): configure has run and the build runs
C17_Witness ==
    /\ Parsed /\ Truthy(args["quiet"]) /\ CliAlone["verbose"] = IntV(3)
    /\ Len(procs) = 2 /\ pc = "building"
    /\ EndsQuiet(procs[2].cmd)

\* the flags each toggle adds to a variable
NativeFlags(var) == " -march=native"
PerfFlags(var) == IF var = "LDFLAGS" THEN " -g" ELSE " -fno-omit-frame-pointer -g -ggdb"
GprofFlags(var) == IF var = "LDFLAGS" THEN " -g -pg" ELSE " -fno-omit-frame-pointer -g -pg"

\* the flags of the toggles that are enabled
AddedFlags(var) ==
    (IF Truthy(args["native_compilation"]) THEN NativeFlags(var) ELSE "")
       \o (IF Truthy(args["linux_perf"]) THEN PerfFlags(var) ELSE "")
       \o (IF Truthy(args["gprof"]) THEN GprofFlags(var) ELSE "")

\* C18: _initial_env only appends to CFLAGS, CXXFLAGS and LDFLAGS: the value
\* after it is the value before it followed by the flags of the toggles that are
\* enabled, and the flags of a toggle are the same whatever the other toggles are.
C18_EnvMutationsAdditive ==
    [][pc = "env" => \A var \in EnvVars :
                        EnvGet(environ', var) = EnvGet(environ, var) \o AddedFlags(var)]_vars

\* C18 happens: the three toggles have been applied to an LDFLAGS that was set
C18_Witness ==
    /\ pc = "envdone"
    /\ Truthy(args["native_compilation"]) /\ Truthy(args["linux_perf"]) /\ Truthy(args["gprof"])
    /\ environ["LDFLAGS"] = "-L/opt/lib -march=native -g -g -pg"
    /\ environ["CFLAGS"] = " -march=native -fno-omit-frame-pointer -g -ggdb -fno-omit-frame-pointer -g -pg"

\* the lines of stderr that are no warning
WarningLines == {"Warning: Unknown option; ignoring", "Warning: Unable to load file"}
IsDiagnostic(line) == line \notin WarningLines
Diagnostics == SelectSeq(stderr, IsDiagnostic)

\* a child has ended with a non-zero code
ChildFailed == \E i \in 1..Len(procs) : procs[i].rc \notin {None, IntV(0)}

\* the run has ended for one of the fatal conditions: cmake missing, the import
\* file not loaded, apply without stat file, an on/off option at another value
\* in the synthesizer, a child that failed
FatalTermination ==
    /\ pc = "exited"
    /\ \/ Count("Error: cmake not found in PATH") > 0
       \/ Count("Error: Unable to load import file") > 0
       \/ Count("Error: --cc-stat-file is required when --enable-cc apply") > 0
       \/ Count("ValueError") > 0 /\ InvalidEnables(args) \cap TriStateOptions # {}
       \/ ChildFailed

\* C19: a run that ends for a fatal condition has written exactly one diagnostic
\* line to stderr (warnings of earlier, non-fatal conditions aside).
C19_OneDiagnosticLine ==
    FatalTermination => Len(Diagnostics) = 1

====
